---- MODULE Spec2Model ----
(***************************************************************************)
(* Model of app.py, a Streamlit portfolio page: a public gallery read from *)
(* a Google Sheet, and a password-gated admin form that uploads an         *)
(* optional media file to Cloudinary and appends one row to the sheet.     *)
(*                                                                         *)
(* Streamlit re-executes the whole script on every user interaction, so    *)
(* every action below is one complete script run of one browser session.   *)
(*                                                                         *)
(* Python values: a string is a TLA+ string; None and a missing key are    *)
(* the sentinel Absent; a value that may be a string or a dict is a PyVal  *)
(* record.                                                                 *)
(***************************************************************************)
EXTENDS Integers, Sequences, FiniteSets, TLC

VARIABLES
    cfg,            \* st.secrets as read at lines 36-39
    sheet,          \* the worksheet: a sequence of rows, each a sequence of cells
    clock,          \* source of datetime.utcnow()
    session_state,  \* st.session_state of every browser session
    projects,       \* the list the last read_projects_from_sheet call returned
    upload,         \* the last cloudinary_upload call: response seen, outcome
    run             \* what the last script run did (history)

vars == <<cfg, sheet, clock, session_state, projects, upload, run>>

----------------------------------------------------------------------------
(* Bounds of the model *)

\* Largest number of rows the application appends in one behaviour.
MaxAppends == 2
\* SpecRead: largest number of data rows and of cells in a row.
MaxDataRows == 2
MaxCells == 2

----------------------------------------------------------------------------
(* Python values *)

Absent == "<absent>"

\* Python truthiness of an optional string.
Truthy(s) == s \notin {Absent, ""}

\* A JSON object of the upload response: the two fields the code reads, and
\* whether it has any other key.
NoPayload == [secure_url |-> Absent, url |-> Absent, other |-> FALSE]

StrVal(s) == [t |-> "str", s |-> s, d |-> NoPayload]
DictVal(p) == [t |-> "dict", s |-> "", d |-> p]

\* bool(v)
PyTruthy(v) == IF v.t = "str" THEN v.s # "" ELSE v.d # NoPayload

\* v or ""
OrEmpty(v) == IF PyTruthy(v) THEN v ELSE StrVal("")

Range(f) == {f[i] : i \in DOMAIN f}

SeqsUpTo(S, n) == UNION {[1..k -> S] : k \in 0..n}

----------------------------------------------------------------------------
(* Configuration *)

NoCloudinary ==
    [present |-> FALSE, cloud_name |-> Absent, upload_preset |-> Absent,
     api_key |-> Absent, api_secret |-> Absent]

\* Every CLOUDINARY table: each key missing or set (api_key also set to "").
CloudinaryTables ==
    [present : {TRUE}, cloud_name : {Absent, "demo"}, upload_preset : {Absent, "preset"},
     api_key : {Absent, "", "key"}, api_secret : {Absent, "secret"}]

NoGsheet == [present |-> FALSE, sheet_id |-> Absent]
GsheetTables == [present : {TRUE}, sheet_id : {Absent, "sheet1"}]

\* Slip: the check forgets GSHEET.
ConfigOnlyCloudinary(c) == c.CLOUDINARY.present

\* if not CLOUDINARY or not GSHEET: st.error(...); st.stop()
ConfigOk(c) == c.CLOUDINARY.present /\ c.GSHEET.present

----------------------------------------------------------------------------
(* cloudinary_upload *)

NoRequest ==
    [sent |-> FALSE, auth |-> FALSE, auth_user |-> Absent, auth_pass |-> Absent,
     upload_preset |-> Absent, api_key |-> Absent]

Payloads ==
    [secure_url : {Absent, "", "https://s"}, url : {Absent, "http://u"},
     other : BOOLEAN]

\* What the upload service answers: no answer, a 4xx/5xx status, or a 2xx
\* status with a JSON object.
Responses ==
    {[kind |-> k, payload |-> NoPayload] : k \in {"unreachable", "http_error"}}
        \cup {[kind |-> "ok", payload |-> p] : p \in Payloads}

\* The requests.post call the function makes.
Request(cloud) ==
    [sent |-> TRUE,
     auth |-> Truthy(cloud.api_secret),
     auth_user |-> IF Truthy(cloud.api_secret) THEN cloud.api_key ELSE Absent,
     auth_pass |-> IF Truthy(cloud.api_secret) THEN cloud.api_secret ELSE Absent,
     upload_preset |-> IF Truthy(cloud.upload_preset) THEN cloud.upload_preset ELSE Absent,
     api_key |-> IF Truthy(cloud.api_key) THEN cloud.api_key ELSE Absent]

\* return payload.get("secure_url") or payload.get("url") or payload
UrlOf(p) ==
    IF Truthy(p.secure_url) THEN StrVal(p.secure_url)
    ELSE IF Truthy(p.url) THEN StrVal(p.url)
    ELSE DictVal(p)

Raised(e, req) == [raised |-> e, value |-> StrVal(""), request |-> req]
Returned(v, req) == [raised |-> "", value |-> v, request |-> req]

cloudinary_upload(cloud, resp) ==
    IF ~Truthy(cloud.cloud_name) THEN Raised("ValueError", NoRequest)
    ELSE IF Truthy(cloud.api_secret) /\ cloud.api_key = Absent
        THEN Raised("KeyError", NoRequest)        \* cloud["api_key"]
    ELSE IF resp.kind = "unreachable" THEN Raised("RuntimeError", Request(cloud))
    ELSE IF resp.kind = "http_error" THEN Raised("RuntimeError", Request(cloud))
    ELSE Returned(UrlOf(resp.payload), Request(cloud))

NoUpload ==
    [called |-> FALSE, cloud |-> NoCloudinary,
     response |-> [kind |-> "none", payload |-> NoPayload],
     outcome |-> Raised("", NoRequest)]

UploadCall(cloud, resp) ==
    [called |-> TRUE, cloud |-> cloud, response |-> resp,
     outcome |-> cloudinary_upload(cloud, resp)]

----------------------------------------------------------------------------
(* The worksheet *)

\* Row schema of the sheet (comment at line 106, keys read at lines 142-160).
Header == <<"Title", "Description", "Link", "MediaURL", "MediaType", "CreatedAt">>

\* datetime.utcnow().isoformat()
isoformat(n) == "2024-01-01T00:00:0" \o ToString(n)

\* open_sheet: "" when the worksheet is opened, else the exception raised.
\* netOk: the credential exchange and the two lookups reach the service.
open_sheet(c, netOk) ==
    IF ~Truthy(c.GSHEET.sheet_id) THEN "ValueError"
    ELSE IF c.GCP_SA = Absent THEN "CredentialsError"
    ELSE IF ~netOk THEN "APIError"
    ELSE ""

\* Slip: ws.insert_row(values, 2), the new row goes under the header.
InsertAfterHeader(rows, values) ==
    IF \E i \in DOMAIN values : values[i].t # "str"
        THEN [raised |-> "APIError", rows |-> rows]
    ELSE IF rows = <<>>
        THEN [raised |-> "", rows |-> <<[i \in DOMAIN values |-> values[i].s]>>]
    ELSE [raised |-> "",
          rows |-> <<rows[1]>> \o <<[i \in DOMAIN values |-> values[i].s]>>
                       \o SubSeq(rows, 2, Len(rows))]

\* ws.append_row(values): the values become the row after the last one; the
\* service refuses a value that is not a scalar.
append_row(rows, values) ==
    IF \E i \in DOMAIN values : values[i].t # "str"
        THEN [raised |-> "APIError", rows |-> rows]
        ELSE [raised |-> "", rows |-> Append(rows, [i \in DOMAIN values |-> values[i].s])]

\* Slip: link and description change places.
SwappedArgs(title, description, link, media_url, media_type, now) ==
    <<StrVal(title), OrEmpty(StrVal(link)), StrVal(description),
      OrEmpty(media_url), OrEmpty(StrVal(media_type)), StrVal(now)>>

\* The list add_project_to_sheet hands to append_row.
RowArgs(title, description, link, media_url, media_type, now) ==
    <<StrVal(title), StrVal(description), OrEmpty(StrVal(link)),
      OrEmpty(media_url), OrEmpty(StrVal(media_type)), StrVal(now)>>

add_project_to_sheet(c, rows, now, title, description, link, media_url, media_type, netOk) ==
    LET e == open_sheet(c, netOk)
        args == RowArgs(title, description, link, media_url, media_type, now)
    IN  IF e # "" THEN [raised |-> e, rows |-> rows, args |-> <<>>]
        ELSE [raised |-> append_row(rows, args).raised,
              rows |-> append_row(rows, args).rows,
              args |-> args]

\* d = {header[i]: r[i] if i < len(r) else "" for i in range(len(header))}
\* (a later column of the same name overwrites an earlier one)
RecordOf(header, r) ==
    [h \in Range(header) |->
        LET i == CHOOSE i \in DOMAIN header :
                    /\ header[i] = h
                    /\ \A j \in DOMAIN header : header[j] = h => j <= i
        IN  IF i <= Len(r) THEN r[i] ELSE ""]

\* projects[::-1]
Reverse(s) == [k \in 1..Len(s) |-> s[Len(s) + 1 - k]]

\* Slip: the list is returned without [::-1].
ParseRowsOldestFirst(rows) ==
    IF rows = <<>> \/ Len(rows) < 2
        THEN [raised |-> "", value |-> <<>>]
        ELSE [raised |-> "",
              value |-> [k \in 1..(Len(rows) - 1) |-> RecordOf(rows[1], rows[k + 1])]]

\* Slip: no early return, header = rows[0] on an empty list.
ParseRowsNoGuard(rows) ==
    IF rows = <<>>
        THEN [raised |-> "IndexError", value |-> <<>>]
        ELSE [raised |-> "",
              value |-> Reverse([k \in 1..(Len(rows) - 1) |-> RecordOf(rows[1], rows[k + 1])])]

\* Lines 113-121 of read_projects_from_sheet, on the rows get_all_values gave.
ParseRows(rows) ==
    IF rows = <<>> \/ Len(rows) < 2
        THEN [raised |-> "", value |-> <<>>]
        ELSE [raised |-> "",
              value |-> Reverse([k \in 1..(Len(rows) - 1) |-> RecordOf(rows[1], rows[k + 1])])]

read_projects_from_sheet(c, rows, netOk) ==
    LET e == open_sheet(c, netOk)
    IN  IF e # "" THEN [raised |-> e, value |-> <<>>] ELSE ParseRows(rows)

\* try: projects = read_projects_from_sheet() / except Exception: projects = []
PublicView(c, rows, netOk) ==
    LET r == read_projects_from_sheet(c, rows, netOk)
    IN  [raised |-> r.raised, projects |-> IF r.raised # "" THEN <<>> ELSE r.value]

----------------------------------------------------------------------------
(* The admin form *)

Sessions == {"s1", "s2"}

\* What an operator may type.
Passwords == {"", "pw", "guess"}

max_bytes == 25 * 1024 * 1024

\* What st.file_uploader returns: nothing, or a file.
NoMedia == [attached |-> FALSE, name |-> "", type |-> "", size |-> 0]
Png == [attached |-> TRUE, name |-> "a.png", type |-> "image/png", size |-> 1024]
BigMp4 == [attached |-> TRUE, name |-> "big.mp4", type |-> "video/mp4", size |-> max_bytes + 1]

\* Slip: if pwd == ADMIN_PASSWORD
LoginWithoutConfiguredCheck(admin_password, pwd) == pwd = admin_password

\* if ADMIN_PASSWORD and pwd == ADMIN_PASSWORD
LoginOk(admin_password, pwd) == Truthy(admin_password) /\ pwd = admin_password

\* Slip: the title is not checked.
TitleNeverMissing(title) == FALSE

\* if not title: st.error("Title is required.")
TitleMissing(title) == ~Truthy(title)

\* Lines 189-211: the media fields of the row, and the upload call made.
\* readOk: media.read() returns.
MediaFields(cloud, media, resp, readOk) ==
    IF ~media.attached
        THEN [media_url |-> StrVal(""), media_type |-> "", upload |-> NoUpload]
    ELSE IF media.size # 0 /\ media.size > max_bytes
        THEN [media_url |-> StrVal(""), media_type |-> "", upload |-> NoUpload]
    ELSE IF ~readOk
        THEN [media_url |-> StrVal(""), media_type |-> "", upload |-> NoUpload]
    ELSE LET u == UploadCall(cloud, resp)
         IN  [media_url |-> IF u.outcome.raised # "" THEN StrVal("") ELSE u.outcome.value,
              media_type |-> media.type,
              upload |-> u]

\* Lines 185-217: what a submitted form does (with the form's values).
Submitted(c, rows, now, title, description, link, media, resp, readOk, netOk) ==
    IF TitleMissing(title)
        THEN [title |-> title, description |-> description, link |-> link,
              attached |-> media.attached,
              upload |-> NoUpload, writerCalls |-> 0, writerArgs |-> <<>>,
              writerRaised |-> "", rows |-> rows]
        ELSE LET m == MediaFields(c.CLOUDINARY, media, resp, readOk)
                 w == add_project_to_sheet(c, rows, now, title, description, link,
                                           m.media_url, m.media_type, netOk)
             IN  [title |-> title, description |-> description, link |-> link,
                  attached |-> media.attached,
                  upload |-> m.upload, writerCalls |-> 1, writerArgs |-> w.args,
                  writerRaised |-> w.raised, rows |-> w.rows]

----------------------------------------------------------------------------
(* Script runs *)

\* The public view a run builds: the worksheet is reached, or it is not.
PublicViews(c, rows) == {PublicView(c, rows, netOk) : netOk \in BOOLEAN}

NoRun ==
    [session |-> "none", event |-> "init", halted |-> FALSE, wasLoggedIn |-> FALSE,
     readerCalls |-> 0, readRaised |-> "", loginAttempts |-> 0, pwd |-> "",
     title |-> "", description |-> "", link |-> "", attached |-> FALSE, writerCalls |-> 0, writerArgs |-> <<>>,
     writerRaised |-> ""]

StartRun(s, ev) ==
    [NoRun EXCEPT !.session = s, !.event = ev,
                  !.wasLoggedIn = session_state[s].admin_logged_in]

\* Lines 42-44: the script stops before the page is built.
Halt(s) ==
    /\ ~ConfigOk(cfg)
    /\ run' = [StartRun(s, "open") EXCEPT !.halted = TRUE]
    /\ upload' = NoUpload
    /\ UNCHANGED <<cfg, sheet, clock, session_state, projects>>

\* A page load or refresh: both tabs are built, nothing is clicked.
Render(s) ==
    /\ ConfigOk(cfg)
    /\ \E v \in PublicViews(cfg, sheet) :
        /\ projects' = v.projects
        /\ run' = [StartRun(s, "open") EXCEPT !.readerCalls = 1, !.readRaised = v.raised]
    /\ session_state' = [session_state EXCEPT ![s].initialised = TRUE]
    /\ upload' = NoUpload
    /\ UNCHANGED <<cfg, sheet, clock>>

\* The Login button, shown by the last run of a session that is not logged in.
\* A success sets the flag and reruns the script (st.experimental_rerun).
Login(s) ==
    /\ ConfigOk(cfg)
    /\ session_state[s].initialised
    /\ ~session_state[s].admin_logged_in
    /\ \E v \in PublicViews(cfg, sheet), pwd \in Passwords :
        \E ok \in {LoginOk(cfg.ADMIN_PASSWORD, pwd)} :
            /\ projects' = v.projects
            /\ session_state' = [session_state EXCEPT ![s].admin_logged_in = ok]
            /\ run' = [StartRun(s, "login") EXCEPT
                          !.readerCalls = IF ok THEN 2 ELSE 1,
                          !.readRaised = v.raised,
                          !.loginAttempts = 1,
                          !.pwd = pwd]
    /\ upload' = NoUpload
    /\ UNCHANGED <<cfg, sheet, clock>>

\* The responses of the upload service the application is run against: no
\* answer, an error status, a URL, and a JSON object without a URL.
AppResponses ==
    {r \in Responses :
        \/ r.kind # "ok"
        \/ r.payload = [secure_url |-> "https://s", url |-> "http://u", other |-> TRUE]
        \/ r.payload = [secure_url |-> Absent, url |-> Absent, other |-> TRUE]}

\* A file attached to the form, the answer of the upload service and whether
\* the file can be read. The answer and the read are fixed where the run
\* reaches neither.
MediaCases ==
    {[media |-> m, resp |-> CHOOSE r \in AppResponses : r.kind = "unreachable",
      readOk |-> TRUE] : m \in {NoMedia, BigMp4}}
        \cup {[media |-> Png, resp |-> CHOOSE r \in AppResponses : r.kind = "unreachable",
                readOk |-> FALSE]}
        \cup {[media |-> Png, resp |-> r, readOk |-> TRUE] : r \in AppResponses}

\* What is typed into the optional text fields: nothing, or a description and
\* a link.
Forms ==
    {[description |-> "", link |-> ""],
     [description |-> "A simple chatbot", link |-> "https://x.test"]}

\* A submitted form. With an empty title the other text fields reach nothing.
SubmitInputs ==
    {[title |-> "", description |-> "", link |-> "", media |-> mc.media,
      resp |-> mc.resp, readOk |-> mc.readOk, netOk |-> TRUE] : mc \in MediaCases}
        \cup {[title |-> "Chatbot Demo", description |-> f.description, link |-> f.link,
                media |-> mc.media, resp |-> mc.resp, readOk |-> mc.readOk, netOk |-> n] :
                    f \in Forms, mc \in MediaCases, n \in BOOLEAN}

\* What the form handler does on each submitted form.
Submissions(c, rows, now) ==
    {Submitted(c, rows, now, in.title, in.description, in.link, in.media, in.resp,
               in.readOk, in.netOk) : in \in SubmitInputs}

\* The "Add project" button of the form, shown to a logged-in session.
Submit(s) ==
    /\ ConfigOk(cfg)
    /\ session_state[s].admin_logged_in
    /\ clock < MaxAppends
    /\ \E v \in PublicViews(cfg, sheet), r \in Submissions(cfg, sheet, isoformat(clock)) :
            /\ projects' = v.projects
            /\ sheet' = r.rows
            /\ clock' = IF r.rows # sheet THEN clock + 1 ELSE clock
            /\ upload' = r.upload
            /\ run' = [StartRun(s, "submit") EXCEPT
                          !.readerCalls = 1,
                          !.readRaised = v.raised,
                          !.title = r.title,
                          !.description = r.description,
                          !.link = r.link,
                          !.attached = r.attached,
                          !.writerCalls = r.writerCalls,
                          !.writerArgs = r.writerArgs,
                          !.writerRaised = r.writerRaised]
    /\ UNCHANGED <<cfg, session_state>>

\* The Logout button: clears the flag and reruns the script.
Logout(s) ==
    /\ ConfigOk(cfg)
    /\ session_state[s].admin_logged_in
    /\ \E v \in PublicViews(cfg, sheet) :
        /\ projects' = v.projects
        /\ run' = [StartRun(s, "logout") EXCEPT !.readerCalls = 2, !.readRaised = v.raised]
    /\ session_state' = [session_state EXCEPT ![s].admin_logged_in = FALSE]
    /\ upload' = NoUpload
    /\ UNCHANGED <<cfg, sheet, clock>>

----------------------------------------------------------------------------
(* Spec: the application *)

\* The secrets the application is started with: every item present or
\* absent, the upload service set up for unsigned uploads.
Unsigned ==
    [present |-> TRUE, cloud_name |-> "demo", upload_preset |-> "preset",
     api_key |-> "key", api_secret |-> Absent]

FullConfig ==
    [CLOUDINARY |-> Unsigned, GSHEET |-> [present |-> TRUE, sheet_id |-> "sheet1"],
     ADMIN_PASSWORD |-> "pw", GCP_SA |-> "{json}"]

Configs ==
    [CLOUDINARY : {NoCloudinary, Unsigned},
     GSHEET : {NoGsheet} \cup GsheetTables,
     ADMIN_PASSWORD : {Absent, "", "pw"},
     GCP_SA : {Absent, "{json}"}]
        \cup {[FullConfig EXCEPT !.CLOUDINARY.cloud_name = Absent]}

LegacyRow == <<"Old", "first project", "", "", "", "2023-12-31T00:00:00">>

InitialSheets == {<<Header>>, <<Header, LegacyRow>>}

InitCommon ==
    /\ clock = 0
    /\ session_state = [s \in Sessions |-> [initialised |-> FALSE, admin_logged_in |-> FALSE]]
    /\ projects = <<>>
    /\ upload = NoUpload
    /\ run = NoRun

Init ==
    /\ cfg \in Configs
    /\ sheet \in InitialSheets
    /\ InitCommon

Next ==
    \E s \in Sessions :
        \/ Halt(s)
        \/ Render(s)
        \/ Login(s)
        \/ Submit(s)
        \/ Logout(s)

Spec == Init /\ [][Next]_vars

----------------------------------------------------------------------------
(* SpecUpload: cloudinary_upload on every configuration and every response. *)
(* The file's bytes and name reach the request body only.                   *)

InitUpload ==
    /\ cfg \in {[FullConfig EXCEPT !.CLOUDINARY = t] : t \in CloudinaryTables}
    /\ sheet = <<Header>>
    /\ InitCommon

UploadOnce ==
    /\ \E resp \in Responses : upload' = UploadCall(cfg.CLOUDINARY, resp)
    /\ UNCHANGED <<cfg, sheet, clock, session_state, projects, run>>

NextUpload == UploadOnce

SpecUpload == InitUpload /\ [][NextUpload]_vars

----------------------------------------------------------------------------
(* SpecRead: read_projects_from_sheet on every small worksheet. *)

ReadHeaders == SeqsUpTo({"Title", "Link"}, MaxCells)
ReadRows == SeqsUpTo({"", "x"}, MaxCells)

\* What get_all_values may return: nothing, or a header row and data rows of
\* any length.
ReadSheets ==
    {<<>>} \cup {<<h>> \o d : h \in ReadHeaders, d \in SeqsUpTo(ReadRows, MaxDataRows)}

InitRead ==
    /\ cfg = FullConfig
    /\ sheet \in ReadSheets
    /\ InitCommon

ReadOnce ==
    /\ \E r \in {read_projects_from_sheet(cfg, sheet, TRUE)} :
        /\ projects' = r.value
        /\ run' = [NoRun EXCEPT !.event = "read", !.readerCalls = 1, !.readRaised = r.raised]
    /\ UNCHANGED <<cfg, sheet, clock, session_state, upload>>

NextRead == ReadOnce

SpecRead == InitRead /\ [][NextRead]_vars

----------------------------------------------------------------------------
(* Properties *)

\* The last run appended a row.
Appended == run.writerCalls = 1 /\ run.writerRaised = ""

\* The last run made none of the calls of the core logic.
NoCoreLogic ==
    /\ run.readerCalls = 0
    /\ run.writerCalls = 0
    /\ run.loginAttempts = 0
    /\ ~upload.called

\* C1: on a sheet with the standard header, after a submission without media
\* has appended its row, the next read returns as its first record the
\* submitted Title, Description and Link, with MediaURL and MediaType empty.
C1_AppendThenRead ==
    [][(/\ run.event = "submit"
        /\ Appended
        /\ ~run.attached
        /\ sheet[1] = Header
        /\ run'.readerCalls >= 1
        /\ run'.readRaised = "")
          => (/\ Len(projects') >= 1
              /\ projects'[1].Title = run.title
              /\ projects'[1].Description = run.description
              /\ projects'[1].Link = run.link
              /\ projects'[1].MediaURL = ""
              /\ projects'[1].MediaType = "")]_vars

\* A read after a second project was added without media: it comes first.
C1_Witness ==
    /\ run.event = "open"
    /\ run.readRaised = ""
    /\ Len(projects) = 2
    /\ projects[1].Title = "Chatbot Demo"
    /\ projects[1].Description = "A simple chatbot"
    /\ projects[1].Link = "https://x.test"
    /\ projects[1].MediaURL = ""
    /\ projects[2].Title = "Old"

\* p is the record line 119 builds from a data row r under a header.
IsRecordOfRow(p, header, r) ==
    /\ DOMAIN p = Range(header)
    /\ \A i \in DOMAIN header :
        (\A j \in DOMAIN header : j > i => header[j] # header[i])
            => p[header[i]] = IF i <= Len(r) THEN r[i] ELSE ""

\* C2: a read of a sheet with a header row and n >= 1 data rows returns n
\* records, the k-th built from data row n+1-k.
C2_ReverseRowOrder ==
    (run.event = "read" /\ Len(sheet) >= 2)
        => LET n == Len(sheet) - 1
           IN  /\ run.readRaised = ""
               /\ Len(projects) = n
               /\ \A k \in 1..n : IsRecordOfRow(projects[k], sheet[1], sheet[(n + 1 - k) + 1])

\* Two different data rows, the second shorter than the header, were read.
C2_Witness ==
    /\ run.event = "read"
    /\ Len(sheet) = 3
    /\ Len(sheet[1]) = 2
    /\ sheet[1][1] # sheet[1][2]
    /\ Len(sheet[3]) = 1
    /\ projects[1] # projects[2]

\* C3: when the upload of an attached file fails in a submission with a title,
\* the Writer is called once and the media fields it is given are both empty.
C3_FailedUploadSavesEmptyMedia ==
    (/\ run.event = "submit"
     /\ Truthy(run.title)
     /\ run.attached
     /\ upload.called
     /\ upload.outcome.raised # "")
        => /\ run.writerCalls = 1
           /\ run.writerArgs # <<>> => (run.writerArgs[4].s = "" /\ run.writerArgs[5].s = "")

\* C4: cloudinary_upload raises when the service is unreachable, answers a
\* non-success status, or answers without a usable secure_url or url; what it
\* returns is a URL string.
C4_UploadRaisesOrReturnsUrl ==
    upload.called
        => /\ (\/ upload.response.kind \in {"unreachable", "http_error"}
               \/ /\ upload.response.kind = "ok"
                  /\ ~Truthy(upload.response.payload.secure_url)
                  /\ ~Truthy(upload.response.payload.url))
                => upload.outcome.raised # ""
           /\ upload.outcome.raised = ""
                => (upload.outcome.value.t = "str" /\ Truthy(upload.outcome.value.s))

\* C5: the request carries no basic-auth credentials when an upload preset is
\* configured, and carries them in every other case.
C5_AuthExactlyWithoutPreset ==
    (upload.called /\ upload.outcome.request.sent)
        => (upload.outcome.request.auth <=> ~Truthy(upload.cloud.upload_preset))

\* C6: a submission with an empty title makes no upload request and no append
\* and leaves the sheet as it was.
C6_EmptyTitleRejected ==
    [][(run'.event = "submit" /\ run'.title = "")
          => (/\ ~upload'.called
              /\ run'.writerCalls = 0
              /\ sheet' = sheet)]_vars

\* An empty title was submitted with a file attached.
C6_Witness ==
    /\ run.event = "submit"
    /\ run.title = ""
    /\ run.attached

\* C7: every run leaves the rows of the sheet as they were, in their order;
\* a run changes the sheet only by one new last row, and exactly when its
\* Writer call succeeds.
C7_AppendOnly ==
    [][/\ \/ sheet' = sheet
          \/ /\ Len(sheet') = Len(sheet) + 1
             /\ SubSeq(sheet', 1, Len(sheet)) = sheet
       /\ (run'.writerCalls = 1 /\ run'.writerRaised = "") <=> sheet' # sheet]_vars

\* Two rows were added below the row that was there, and a session has
\* logged out while another is logged in.
C7_Witness ==
    /\ Len(sheet) = 4
    /\ sheet[2] = LegacyRow
    /\ run.event = "logout"
    /\ \E s \in Sessions : session_state[s].admin_logged_in

\* C8: an upload request or an append is made only by a session whose flag is
\* true; the flag becomes true only by a login attempt with the configured,
\* non-empty password; a logout clears it.
C8_PasswordGated ==
    /\ \A s \in Sessions : ~session_state[s].admin_logged_in
    /\ [][/\ (upload'.called \/ run'.writerCalls > 0)
                => (run'.wasLoggedIn /\ session_state[run'.session].admin_logged_in)
          /\ \A s \in Sessions :
                (~session_state[s].admin_logged_in /\ session_state'[s].admin_logged_in)
                    => /\ run'.event = "login"
                       /\ run'.session = s
                       /\ run'.loginAttempts = 1
                       /\ Truthy(cfg.ADMIN_PASSWORD)
                       /\ run'.pwd = cfg.ADMIN_PASSWORD
          /\ run'.event = "logout" => ~session_state'[run'.session].admin_logged_in]_vars

\* One session has appended a row while the other never logged in.
C8_Witness ==
    /\ run.event = "submit"
    /\ run.session = "s1"
    /\ Appended
    /\ session_state["s1"].admin_logged_in
    /\ session_state["s2"].initialised
    /\ ~session_state["s2"].admin_logged_in

\* C9: a read of a sheet with only a header row, or with no row, returns an
\* empty sequence and raises nothing.
C9_HeaderOnlyReadsEmpty ==
    (run.event = "read" /\ Len(sheet) < 2)
        => (projects = <<>> /\ run.readRaised = "")

\* A sheet with a header row and no data row was read.
C9_Witness ==
    /\ run.event = "read"
    /\ Len(sheet) = 1
    /\ Len(sheet[1]) = 2

\* An item of the configuration surface is absent.
AnyItemAbsent ==
    \/ ~cfg.CLOUDINARY.present
    \/ cfg.CLOUDINARY.cloud_name = Absent
    \/ cfg.CLOUDINARY.api_key = Absent
    \/ ~cfg.GSHEET.present
    \/ cfg.GSHEET.sheet_id = Absent
    \/ cfg.GCP_SA = Absent
    \/ cfg.ADMIN_PASSWORD = Absent

\* C10 as stated: with any configuration item absent no run reaches a Reader,
\* Writer or Uploader call or a login attempt.
C10_AnyAbsentItemHalts == AnyItemAbsent => NoCoreLogic

\* C10 as amended: with the CLOUDINARY table or the GSHEET table absent every
\* run halts before a Reader, Writer or Uploader call or a login attempt.
C10_MissingTableHalts ==
    (~cfg.CLOUDINARY.present \/ ~cfg.GSHEET.present)
        => /\ NoCoreLogic
           /\ run.event # "init" => run.halted
           /\ \A s \in Sessions : ~session_state[s].initialised

\* A run was started without the GSHEET table.
C10_Witness ==
    /\ cfg.CLOUDINARY.present
    /\ ~cfg.GSHEET.present
    /\ run.event = "open"
    /\ run.halted

====
